---- MODULE Spec2Model ----
(***************************************************************************)
(* Model of the schema scoring service:                                    *)
(*   app/services/scoring_service.py   score_gen_ai and its helpers        *)
(*   app/routes/schema_scoring_routes.py   the POST /score_schema route    *)
(*                                                                         *)
(* Python floats are modelled as exact rationals <<num, den>> (den > 0);   *)
(* <<0, 0>> stands for the ZeroDivisionError a division by zero raises.    *)
(* Similarities and thresholds are integers in hundredths (0.8 is 80).     *)
(* The outputs of the spaCy and SentenceTransformer models are read from   *)
(* fixed tables (NlpOracle, EmbeddingSim).                                 *)
(***************************************************************************)
EXTENDS Integers, Sequences, FiniteSets, TLC

VARIABLES
    \* the request
    body, schema, similarity_threshold, doc_similarity_meaningful_min,
    doc_similarity_placeholder_max, weights_override,
    \* where the caller is: "idle", "returned", "raised" or "responded"
    pc,
    \* the locals of the last call of score_gen_ai
    weights, fields_meaningful_or_described, non_meaningful_fields,
    non_meaningful_no_description, field_descriptions_map, field_table_map,
    similar_pairs, raw_scores,
    \* for each element of similar_pairs, the positions in the schema of the
    \* two fields whose loop iteration appended it
    pair_origin,
    \* what the last call of score_gen_ai returned or raised
    outcome,
    \* the HTTP status (0: no response) and body of the route's response
    status, response,
    \* whether an earlier evaluation of this caller passed a weights_override
    overridden_before

inputs == <<body, schema, similarity_threshold, doc_similarity_meaningful_min,
            doc_similarity_placeholder_max, weights_override>>

locals == <<weights, fields_meaningful_or_described, non_meaningful_fields,
            non_meaningful_no_description, field_descriptions_map,
            field_table_map, similar_pairs, raw_scores,
            pair_origin, outcome>>

vars == <<inputs, pc, locals, status, response, overridden_before>>

----------------------------------------------------------------------------
(* Bounds *)

\* the longest schema of Spec, SpecScore, SpecValidation and SpecWeights
MaxFields == 3
MaxScoreFields == 2
MaxCheckedFields == 2
MaxWeightFields == 1
\* the most keys of a weights_override of SpecWeights
MaxOverrideKeys == 2

----------------------------------------------------------------------------
(* Values *)

\* a key that a dict does not hold (entry.get(key) is None)
Absent == "<absent>"

\* a keyword argument the caller did not pass: the signature default applies
NotPassed == -1

DefaultSimilarityThreshold == 80
DefaultMeaningfulMin == 5
DefaultPlaceholderMax == 80
MinNameLength == 4

MetricNames == {"field_names", "field_descriptions", "field_name_similarity",
                "field_types", "keys_presence"}

default_weights == [k \in MetricNames |->
                      CASE k = "field_names" -> 35
                        [] k = "field_descriptions" -> 25
                        [] k = "field_name_similarity" -> 20
                        [] k = "field_types" -> 10
                        [] k = "keys_presence" -> 10]

----------------------------------------------------------------------------
(* Exact arithmetic standing for Python's float operators *)

RECURSIVE GCD(_, _)
GCD(a, b) == IF b = 0 THEN a ELSE GCD(b, a % b)

Abs(x) == IF x < 0 THEN -x ELSE x

NaR == <<0, 0>>

IsNaR(r) == r[2] = 0

Rat(n, d) ==
    IF d = 0 THEN NaR
    ELSE LET g == GCD(Abs(n), Abs(d))
             s == IF d < 0 THEN -1 ELSE 1
         IN  <<(s * n) \div g, (s * d) \div g>>

Num(n) == <<n, 1>>

RatAdd(a, b) ==
    IF IsNaR(a) \/ IsNaR(b) THEN NaR
    ELSE Rat(a[1] * b[2] + b[1] * a[2], a[2] * b[2])

RatSub(a, b) ==
    IF IsNaR(a) \/ IsNaR(b) THEN NaR
    ELSE Rat(a[1] * b[2] - b[1] * a[2], a[2] * b[2])

RatMul(a, b) ==
    IF IsNaR(a) \/ IsNaR(b) THEN NaR
    ELSE Rat(a[1] * b[1], a[2] * b[2])

RatDiv(a, b) ==
    IF IsNaR(a) \/ IsNaR(b) THEN NaR
    ELSE Rat(a[1] * b[2], a[2] * b[1])

RatLeq(a, b) == a[1] * b[2] <= b[1] * a[2]

----------------------------------------------------------------------------
(* Text: str.strip and the field-name normalisation *)

\* The strings of the model, each with its characters.
Chars(s) ==
    CASE s = ""         -> <<>>
      [] s = " "        -> <<" ">>
      [] s = "d1"       -> <<"d", "1">>
      [] s = "d1 "      -> <<"d", "1", " ">>
      [] s = "d2"       -> <<"d", "2">>
      [] s = "id"       -> <<"i", "d">>
      [] s = "user_id"  -> <<"u", "s", "e", "r", "_", "i", "d">>
      [] s = "user_ids" -> <<"u", "s", "e", "r", "_", "i", "d", "s">>
      [] s = "a._b"     -> <<"a", ".", "_", "b">>
      [] s = "test"     -> <<"t", "e", "s", "t">>

Texts == {"", " ", "d1", "d1 ", "d2", "id", "user_id", "user_ids", "a._b", "test"}

IsSpace(c) == c = " "

RECURSIVE LStrip(_)
LStrip(cs) ==
    IF cs # <<>> /\ IsSpace(Head(cs)) THEN LStrip(Tail(cs)) ELSE cs

RECURSIVE RStrip(_)
RStrip(cs) ==
    IF cs # <<>> /\ IsSpace(cs[Len(cs)])
    THEN RStrip(SubSeq(cs, 1, Len(cs) - 1))
    ELSE cs

\* str.strip() on characters
StripChars(cs) == RStrip(LStrip(cs))

\* str.strip() on every string of the model
StripTable ==
    [s \in Texts |-> CHOOSE t \in Texts : Chars(t) = StripChars(Chars(s))]

Strip(s) == StripTable[s]

IsDelimiter(c) == c \in {".", "_"}

\* re.sub(r'[._]+', ' ', s): every maximal run of dots and underscores
\* becomes one space
RECURSIVE SubDelimiters(_)
SubDelimiters(cs) ==
    IF cs = <<>> THEN <<>>
    ELSE IF IsDelimiter(Head(cs))
         THEN IF Len(cs) > 1 /\ IsDelimiter(cs[2])
              THEN SubDelimiters(Tail(cs))
              ELSE <<" ">> \o SubDelimiters(Tail(cs))
         ELSE <<Head(cs)>> \o SubDelimiters(Tail(cs))

\* field_name_proc of is_field_name_meaningful_spacy_advanced
FieldNameProc(field_name) == SubDelimiters(StripChars(Chars(field_name)))

\* len(field_name_proc) of every string of the model
FieldNameProcLen == [s \in Texts |-> Len(FieldNameProc(s))]

\* What spaCy says of a normalised field name: whether a token survives the
\* punctuation/number filter, whether one of them is a NOUN, PROPN or ADJ, and
\* the document similarities to the two reference documents (hundredths).
NlpOracle(field_name) ==
    CASE field_name = "user_id"  ->
           [valid_tokens |-> TRUE, informative_pos |-> TRUE,
            similarity_meaningful |-> 45, similarity_placeholder |-> 30]
      [] field_name = "user_ids" ->
           [valid_tokens |-> TRUE, informative_pos |-> TRUE,
            similarity_meaningful |-> 40, similarity_placeholder |-> 35]
      [] field_name = "test"     ->
           [valid_tokens |-> TRUE, informative_pos |-> TRUE,
            similarity_meaningful |-> 30, similarity_placeholder |-> 90]
      [] OTHER                   ->
           [valid_tokens |-> TRUE, informative_pos |-> FALSE,
            similarity_meaningful |-> 10, similarity_placeholder |-> 20]

is_field_name_meaningful_spacy_advanced(field_name, meaningful_min, placeholder_max) ==
    LET doc == NlpOracle(field_name)
    IN  IF FieldNameProcLen[field_name] < MinNameLength THEN FALSE
        ELSE IF ~doc.valid_tokens THEN FALSE
        ELSE IF ~doc.informative_pos THEN FALSE
        ELSE IF doc.similarity_meaningful < meaningful_min THEN FALSE
        ELSE IF doc.similarity_placeholder > placeholder_max THEN FALSE
        ELSE TRUE

\* util.pytorch_cos_sim of the embeddings of two names (hundredths); a name
\* against itself gives 1.0
EmbeddingSim(name1, name2) ==
    IF name1 = name2 THEN 100
    ELSE IF {name1, name2} = {"user_id", "user_ids"} THEN 93
    ELSE IF {name1, name2} = {"id", "user_id"} THEN 62
    ELSE IF {name1, name2} = {"id", "user_ids"} THEN 58
    ELSE 20

----------------------------------------------------------------------------
(* score_gen_ai *)

AllKeys == MetricNames \cup {"bogus"}

\* MergeWeights without the `if k in weights` test: every key of the override
\* lands in the weights.
MergeWeightsAnyKey(override) ==
    [k \in DOMAIN default_weights \cup DOMAIN override |->
        IF k \in DOMAIN override THEN override[k] ELSE default_weights[k]]

\* Merge of weights_override into the defaults: `not weights_override` (None
\* or an empty dict) keeps the defaults; otherwise only the keys already in
\* the weights are updated.
MergeWeights(override) ==
    IF DOMAIN override = {} THEN default_weights
    ELSE [k \in DOMAIN default_weights |->
            IF k \in DOMAIN override THEN override[k] ELSE default_weights[k]]

RECURSIVE SumOver(_, _)
SumOver(f, keys) ==
    IF keys = {} THEN 0
    ELSE LET k == CHOOSE x \in keys : TRUE
         IN  f[k] + SumOver(f, keys \ {k})

\* sum(weights.values())
SumWeights(w) == SumOver(w, DOMAIN w)

\* bool(value) of an optional string value
Truthy(value) == value # Absent /\ value # ""

\* required_keys.issubset(entry.keys())
HasRequiredKeys(entry) == entry.table_name # Absent /\ entry.column_name # Absent

\* desc_val.strip() if desc_val and isinstance(desc_val, str) else ''
DescOf(entry) == IF Truthy(entry.description) THEN Strip(entry.description) ELSE ""

Indices(items) == 1..Len(items)

Count(items, Test(_)) == Cardinality({i \in Indices(items) : Test(items[i])})

\* total_tables
TotalTables(items) == {items[i].table_name : i \in Indices(items)}

\* loop 1: the fields counted as meaningful or described
FieldsMeaningfulOrDescribed(items, meaningful_min, placeholder_max) ==
    LET Counts(entry) ==
          IF is_field_name_meaningful_spacy_advanced(
                 entry.column_name, meaningful_min, placeholder_max)
          THEN TRUE
          ELSE DescOf(entry) # ""
    IN  Count(items, Counts)

\* loop 1: non_meaningful_fields
NonMeaningfulFields(items, meaningful_min, placeholder_max) ==
    {items[i].column_name : i \in
        {j \in Indices(items) :
            ~is_field_name_meaningful_spacy_advanced(
                 items[j].column_name, meaningful_min, placeholder_max)}}

\* loop 1: non_meaningful_no_description
NonMeaningfulNoDescription(items, meaningful_min, placeholder_max) ==
    {items[i].column_name : i \in
        {j \in Indices(items) :
            /\ ~is_field_name_meaningful_spacy_advanced(
                   items[j].column_name, meaningful_min, placeholder_max)
            /\ DescOf(items[j]) = ""}}

\* fields_with_descriptions
FieldsWithDescriptions(items) ==
    LET Described(entry) == Truthy(entry.description) /\ Strip(entry.description) # ""
    IN  Count(items, Described)

\* fields_with_types
FieldsWithTypes(items) ==
    LET Typed(entry) == Truthy(entry.data_type)
    IN  Count(items, Typed)

\* tables_with_primary_key
TablesWithPrimaryKey(items) ==
    Cardinality({t \in TotalTables(items) :
        \E i \in Indices(items) : items[i].table_name = t /\ items[i].primary_key})

\* tables_with_foreign_key
TablesWithForeignKey(items) ==
    Cardinality({t \in TotalTables(items) :
        \E i \in Indices(items) : items[i].table_name = t /\ items[i].foreign_key})

\* keys_presence_score
KeysPresenceScore(items, w) ==
    LET num_tables == Cardinality(TotalTables(items))
    IN  IF num_tables > 0
        THEN LET half == RatDiv(Num(w["keys_presence"]), Num(2))
                 primary_key_score ==
                   RatMul(RatDiv(Num(TablesWithPrimaryKey(items)), Num(num_tables)), half)
                 foreign_key_score ==
                   RatMul(RatDiv(Num(TablesWithForeignKey(items)), Num(num_tables)), half)
             IN  RatAdd(primary_key_score, foreign_key_score)
        ELSE Num(0)

\* The entry whose value a dict keyed by column_name ends up holding for
\* `name`: the last entry of the schema with that column_name.
LastEntryNamed(items, name) ==
    items[CHOOSE i \in Indices(items) :
            /\ items[i].column_name = name
            /\ \A j \in Indices(items) : items[j].column_name = name => j <= i]

\* field_names, as a set
FieldNames(items) == {items[i].column_name : i \in Indices(items)}

\* field_descriptions_map
FieldDescriptionsMap(items) ==
    [name \in FieldNames(items) |-> DescOf(LastEntryNamed(items, name))]

\* field_table_map
FieldTableMap(items) ==
    [name \in FieldNames(items) |-> LastEntryNamed(items, name).table_name]

\* The position of the pair (i, j), i < j, in combinations(range(n), 2)
PairRank(n, i, j) == (i - 1) * n - (i * (i - 1)) \div 2 + (j - i)

\* combinations over the positions of field_names, in iteration order
Combinations(n) ==
    [k \in 1..((n * (n - 1)) \div 2) |->
        CHOOSE p \in (1..n) \X (1..n) : p[1] < p[2] /\ PairRank(n, p[1], p[2]) = k]

\* Whether the loop iteration for the fields at positions p[1] < p[2] appends
\* to similar_pairs.
Penalizes(items, descriptions_map, table_map, threshold, p) ==
    LET name1 == items[p[1]].column_name
        name2 == items[p[2]].column_name
        desc1 == descriptions_map[name1]
        desc2 == descriptions_map[name2]
    IN  /\ table_map[name1] = table_map[name2]
        /\ EmbeddingSim(name1, name2) >= threshold
        /\ ~(desc1 # "" /\ desc2 # "" /\ desc1 # desc2)

\* The iterations that append, in order
PairOrigin(items, descriptions_map, table_map, threshold) ==
    LET Appends(p) == Penalizes(items, descriptions_map, table_map, threshold, p)
    IN  IF Len(items) > 1 THEN SelectSeq(Combinations(Len(items)), Appends) ELSE <<>>

\* similar_pairs, given the iterations that append
SimilarPairs(items, origin) ==
    [k \in 1..Len(origin) |->
        <<items[origin[k][1]].column_name, items[origin[k][2]].column_name>>]

\* similarity_penalized_fields
SimilarityPenalizedFields(pairs) ==
    UNION {{pairs[k][1], pairs[k][2]} : k \in 1..Len(pairs)}

\* ConfusionRate with the pairs of each table as denominator instead of the
\* pairs of the whole schema.
ConfusionRatePerTable(items, pairs) ==
    IF Len(items) > 1
    THEN LET InTable(t) == Cardinality({i \in Indices(items) : items[i].table_name = t})
             PairsIn(t) == (InTable(t) * (InTable(t) - 1)) \div 2
             Sizes == [t \in TotalTables(items) |-> PairsIn(t)]
             total_pairs == Num(SumOver(Sizes, TotalTables(items)))
         IN  IF ~RatLeq(total_pairs, Num(0))
             THEN RatDiv(Num(Len(pairs)), total_pairs)
             ELSE Num(0)
    ELSE Num(0)

\* confusion_rate
ConfusionRate(items, pairs) ==
    IF Len(items) > 1
    THEN LET total_fields == Len(items)
             total_pairs == RatDiv(Num(total_fields * (total_fields - 1)), Num(2))
         IN  IF ~RatLeq(total_pairs, Num(0))
             THEN RatDiv(Num(Len(pairs)), total_pairs)
             ELSE Num(0)
    ELSE Num(0)

\* safe_div without its test of the weight
unsafe_div(score, weight) == RatDiv(score, Num(weight))

\* safe_div
safe_div(score, weight) == IF weight # 0 THEN RatDiv(score, Num(weight)) ELSE Num(0)

NoResult == [kind |-> "none"]

ErrorValue(error) == [kind |-> "error", error |-> error]

Raised(exception) == [kind |-> "raised", error |-> exception]

Param(value, default) == IF value = NotPassed THEN default ELSE value

\* Whether the call gets past validation
Validated(sch) ==
    /\ sch.kind = "list"
    /\ Len(sch.items) > 0
    /\ \A i \in Indices(sch.items) : HasRequiredKeys(sch.items[i])

NoScores == <<>>

\* The five raw scores and their total
RawScores(items, pairs, fmd, w) ==
    LET total_fields == Len(items)
    IN  [field_names_score |->
           RatMul(RatDiv(Num(fmd), Num(total_fields)), Num(w["field_names"])),
         field_descriptions_score |->
           RatMul(RatDiv(Num(FieldsWithDescriptions(items)), Num(total_fields)),
                  Num(w["field_descriptions"])),
         field_name_similarity_score |->
           RatMul(RatSub(Num(1), ConfusionRate(items, pairs)),
                  Num(w["field_name_similarity"])),
         field_types_score |->
           RatMul(RatDiv(Num(FieldsWithTypes(items)), Num(total_fields)),
                  Num(w["field_types"])),
         keys_presence_score |-> KeysPresenceScore(items, w)]

\* TotalScore with the keys presence score left out of the sum
TotalScoreWithoutKeys(raw) ==
    RatAdd(RatAdd(RatAdd(raw.field_names_score, raw.field_descriptions_score),
                  raw.field_name_similarity_score),
           raw.field_types_score)

\* total_score
TotalScore(raw) ==
    RatAdd(RatAdd(RatAdd(RatAdd(raw.field_names_score, raw.field_descriptions_score),
                         raw.field_name_similarity_score),
                  raw.field_types_score),
           raw.keys_presence_score)

Pct(r) == RatMul(r, Num(100))

\* detailed_scores
DetailedScores(raw, total, w, non_meaningful, no_description, penalized) ==
    [kind |-> "scores",
     field_names_score |-> raw.field_names_score,
     field_descriptions_score |-> raw.field_descriptions_score,
     field_name_similarity_score |-> raw.field_name_similarity_score,
     field_types_score |-> raw.field_types_score,
     keys_presence_score |-> raw.keys_presence_score,
     total_score |-> total,
     field_names_score_pct |-> Pct(safe_div(raw.field_names_score, w["field_names"])),
     field_descriptions_score_pct |->
       Pct(safe_div(raw.field_descriptions_score, w["field_descriptions"])),
     field_name_similarity_score_pct |->
       Pct(safe_div(raw.field_name_similarity_score, w["field_name_similarity"])),
     field_types_score_pct |-> Pct(safe_div(raw.field_types_score, w["field_types"])),
     keys_presence_score_pct |->
       Pct(safe_div(raw.keys_presence_score, w["keys_presence"])),
     total_score_pct |-> Pct(safe_div(total, SumWeights(w))),
     NonMeaningful |-> non_meaningful,
     NonMeaningful_NoDescription |-> no_description,
     Similar_Undifferentiated |-> penalized]

ScoreFields == {"field_names_score", "field_descriptions_score",
                "field_name_similarity_score", "field_types_score",
                "keys_presence_score", "total_score"}

PctFields == {"field_names_score_pct", "field_descriptions_score_pct",
              "field_name_similarity_score_pct", "field_types_score_pct",
              "keys_presence_score_pct", "total_score_pct"}

\* A division by zero anywhere in the computation raises ZeroDivisionError
\* instead of returning the scores.
ZeroDivision(detailed) == \E f \in ScoreFields \cup PctFields : IsNaR(detailed[f])

----------------------------------------------------------------------------
(* Operations *)

NoOverride == <<>>

\* The body of score_gen_ai, statement by statement: each local is set from
\* the locals set before it.  The logger.error call of the missing-keys
\* branch builds the set {entry} of a dict, which raises TypeError
\* (unhashable type) before the error value is returned.
ScoreGenAiBody ==
    /\ weights' = MergeWeights(weights_override)
    /\ IF ~Validated(schema)
       THEN /\ outcome' = IF schema.kind # "list" \/ Len(schema.items) = 0
                          THEN ErrorValue("Invalid schema input")
                          ELSE Raised("TypeError")
            /\ pair_origin' = <<>>
            /\ similar_pairs' = <<>>
            /\ fields_meaningful_or_described' = 0
            /\ non_meaningful_fields' = {}
            /\ non_meaningful_no_description' = {}
            /\ field_descriptions_map' = <<>>
            /\ field_table_map' = <<>>
            /\ raw_scores' = NoScores
       ELSE LET threshold == Param(similarity_threshold, DefaultSimilarityThreshold)
                mmin == Param(doc_similarity_meaningful_min, DefaultMeaningfulMin)
                pmax == Param(doc_similarity_placeholder_max, DefaultPlaceholderMax)
            IN  /\ fields_meaningful_or_described' =
                     FieldsMeaningfulOrDescribed(schema.items, mmin, pmax)
                /\ non_meaningful_fields' = NonMeaningfulFields(schema.items, mmin, pmax)
                /\ non_meaningful_no_description' =
                     NonMeaningfulNoDescription(schema.items, mmin, pmax)
                /\ field_descriptions_map' = FieldDescriptionsMap(schema.items)
                /\ field_table_map' = FieldTableMap(schema.items)
                /\ pair_origin' = PairOrigin(schema.items, field_descriptions_map',
                                             field_table_map', threshold)
                /\ similar_pairs' = SimilarPairs(schema.items, pair_origin')
                /\ raw_scores' = RawScores(schema.items, similar_pairs',
                                           fields_meaningful_or_described', weights')
                /\ \E detailed \in
                       {DetailedScores(raw_scores', TotalScore(raw_scores'), weights',
                                       non_meaningful_fields',
                                       non_meaningful_no_description',
                                       SimilarityPenalizedFields(similar_pairs'))} :
                     outcome' = IF ZeroDivision(detailed)
                                THEN Raised("ZeroDivisionError")
                                ELSE detailed

\* A direct call score_gen_ai(schema, ...)
ScoreGenAi ==
    /\ pc = "idle"
    /\ ScoreGenAiBody
    /\ pc' = IF outcome'.kind = "raised" THEN "raised" ELSE "returned"
    /\ status' = 0
    /\ response' = NoResult
    /\ UNCHANGED <<inputs, overridden_before>>

\* The status of the response of POST /score_schema to what score_gen_ai
\* returned or raised.  An exception enters the except block, whose
\* app.logger is an undefined name: the NameError leaves the view and Flask
\* answers 500.
RouteStatus(returned) == IF returned.kind = "raised" THEN 500 ELSE 200

\* The body of that response
RouteBody(returned) ==
    IF returned.kind = "raised" THEN Raised("NameError") ELSE returned

\* POST /score_schema
ScoreSchema ==
    /\ pc = "idle"
    /\ pc' = "responded"
    /\ IF body # "with_schema"
       THEN /\ status' = 400
            /\ response' = ErrorValue("Bad Request")
            /\ UNCHANGED locals
       ELSE IF schema.kind # "list"
       THEN /\ status' = 422
            /\ response' = ErrorValue("Invalid Format")
            /\ UNCHANGED locals
       ELSE /\ ScoreGenAiBody
            /\ status' = RouteStatus(outcome')
            /\ response' = RouteBody(outcome')
    /\ UNCHANGED <<inputs, overridden_before>>

\* The caller goes on to a later evaluation of the same schema, this time
\* without weights_override; nothing of the finished call survives.
NextCall ==
    /\ pc # "idle"
    /\ pc' = "idle"
    /\ weights_override' = NoOverride
    /\ overridden_before' = (overridden_before \/ DOMAIN weights_override # {})
    /\ status' = 0
    /\ response' = NoResult
    /\ outcome' = NoResult
    /\ weights' = <<>>
    /\ similar_pairs' = <<>>
    /\ pair_origin' = <<>>
    /\ fields_meaningful_or_described' = 0
    /\ non_meaningful_fields' = {}
    /\ non_meaningful_no_description' = {}
    /\ field_descriptions_map' = <<>>
    /\ field_table_map' = <<>>
    /\ raw_scores' = NoScores
    /\ UNCHANGED <<body, schema, similarity_threshold,
                   doc_similarity_meaningful_min, doc_similarity_placeholder_max>>

Next == ScoreGenAi \/ ScoreSchema \/ NextCall

----------------------------------------------------------------------------
(* Inputs *)

SeqsUpTo(S, n) == UNION {[1..k -> S] : k \in 0..n}

ListOf(items) == [kind |-> "list", items |-> items]

\* a schema value that is not a list
NotAList == [kind |-> "other", items |-> <<>>]

\* the weights_override dicts with the keys `keys`
OverridesOn(keys, values) == [keys -> values]

NothingDone ==
    /\ pc = "idle"
    /\ weights = <<>>
    /\ similar_pairs = <<>>
    /\ pair_origin = <<>>
    /\ fields_meaningful_or_described = 0
    /\ non_meaningful_fields = {}
    /\ non_meaningful_no_description = {}
    /\ field_descriptions_map = <<>>
    /\ field_table_map = <<>>
    /\ raw_scores = NoScores
    /\ outcome = NoResult
    /\ status = 0
    /\ response = NoResult
    /\ overridden_before = FALSE

\* Spec: schemas of one or two tables whose fields carry names and
\* descriptions, scored at the default and at a lower similarity threshold.
PairEntries ==
    [table_name : {"t1", "t2"},
     column_name : {"id", "user_id"},
     description : {" ", "d1", "d2"},
     data_type : {Absent},
     primary_key : {FALSE},
     foreign_key : {FALSE}]

Init ==
    /\ body = "with_schema"
    /\ schema \in {ListOf(items) : items \in SeqsUpTo(PairEntries, MaxFields) \ {<<>>}}
    /\ similarity_threshold \in {NotPassed, 60}
    /\ doc_similarity_meaningful_min = NotPassed
    /\ doc_similarity_placeholder_max = NotPassed
    /\ weights_override \in {NoOverride} \cup OverridesOn({"field_name_similarity"}, {0})
    /\ NothingDone

Spec == Init /\ [][Next]_vars

\* SpecValidation: request bodies with and without a schema, schemas that are
\* no list, empty lists, and entries with and without the required keys.
CheckedEntries ==
    [table_name : {"t1", Absent},
     column_name : {"id", "test", Absent},
     description : {Absent, "d1"},
     data_type : {Absent, "INT"},
     primary_key : BOOLEAN,
     foreign_key : {FALSE}]

InitValidation ==
    /\ body \in {"none", "no_schema", "with_schema"}
    /\ schema \in {NotAList}
                  \cup {ListOf(items) : items \in SeqsUpTo(CheckedEntries, MaxCheckedFields)}
    /\ similarity_threshold = NotPassed
    /\ doc_similarity_meaningful_min = NotPassed
    /\ doc_similarity_placeholder_max \in {NotPassed, 95}
    /\ weights_override = NoOverride
    /\ NothingDone

SpecValidation == InitValidation /\ [][Next]_vars

\* SpecScore: valid schemas whose fields vary in every attribute the five
\* metrics read, under the default weights, all-zero weights and a mixed
\* override.
KeyProfiles ==
    {[data_type |-> Absent, primary_key |-> FALSE, foreign_key |-> FALSE],
     [data_type |-> "INT", primary_key |-> TRUE, foreign_key |-> FALSE],
     [data_type |-> "INT", primary_key |-> FALSE, foreign_key |-> TRUE]}

ScoreEntries ==
    {[table_name |-> t, column_name |-> c, description |-> d,
      data_type |-> k.data_type, primary_key |-> k.primary_key,
      foreign_key |-> k.foreign_key] :
        t \in {"t1", "t2"}, c \in {"id", "user_id"}, d \in {Absent, "d1 "},
        k \in KeyProfiles}

AllZero == [k \in MetricNames |-> 0]

MixedOverride == [k \in {"field_names", "keys_presence", "bogus"} |->
                    CASE k = "field_names" -> 7
                      [] k = "keys_presence" -> 0
                      [] k = "bogus" -> 3]

InitScore ==
    /\ body = "with_schema"
    /\ schema \in {ListOf(items) : items \in SeqsUpTo(ScoreEntries, MaxScoreFields) \ {<<>>}}
    /\ similarity_threshold = NotPassed
    /\ doc_similarity_meaningful_min = NotPassed
    /\ doc_similarity_placeholder_max = NotPassed
    /\ weights_override \in {NoOverride, AllZero, MixedOverride}
    /\ NothingDone

SpecScore == InitScore /\ [][Next]_vars

\* SpecWeights: every weights_override of at most MaxOverrideKeys keys, known
\* and unknown, over short schemas.
WeightEntries ==
    [table_name : {"t1"},
     column_name : {"id", "user_id"},
     description : {Absent, "d1"},
     data_type : {"INT"},
     primary_key : BOOLEAN,
     foreign_key : {FALSE}]

Overrides ==
    UNION {OverridesOn(keys, {0, 7}) :
             keys \in {K \in SUBSET AllKeys : Cardinality(K) <= MaxOverrideKeys}}

InitWeights ==
    /\ body = "with_schema"
    /\ schema \in {ListOf(items) : items \in SeqsUpTo(WeightEntries, MaxWeightFields)}
    /\ similarity_threshold = NotPassed
    /\ doc_similarity_meaningful_min = NotPassed
    /\ doc_similarity_placeholder_max = NotPassed
    /\ weights_override \in Overrides
    /\ NothingDone

SpecWeights == InitWeights /\ [][Next]_vars

----------------------------------------------------------------------------
(* The claims *)

\* score_gen_ai has been called and has returned or raised
Called == outcome.kind # "none"

\* score_gen_ai has returned the detailed scores
Scored == outcome.kind = "scores"

Fields == Indices(schema.items)

FieldPairs == {p \in Fields \X Fields : p[1] < p[2]}

TableOf(i) == schema.items[i].table_name

NameOf(i) == schema.items[i].column_name

\* the field's own description, trimmed
OwnDesc(i) == DescOf(schema.items[i])

\* the loop iteration of the pair p appended to similar_pairs
Recorded(p) == \E k \in 1..Len(pair_origin) : pair_origin[k] = p

TimesRecorded(p) == Cardinality({k \in 1..Len(pair_origin) : pair_origin[k] = p})

EffectiveThreshold == Param(similarity_threshold, DefaultSimilarityThreshold)

JudgedMeaningful(i) ==
    is_field_name_meaningful_spacy_advanced(
        NameOf(i),
        Param(doc_similarity_meaningful_min, DefaultMeaningfulMin),
        Param(doc_similarity_placeholder_max, DefaultPlaceholderMax))

EmptySchema == schema.kind = "list" /\ Len(schema.items) = 0

EntryLacksKeys ==
    /\ schema.kind = "list"
    /\ \E i \in Fields : ~HasRequiredKeys(schema.items[i])

\* C1: every call of score_gen_ai with an empty list returns the
\* invalid/empty-schema error value, and every call with a non-empty list
\* holding an entry without table_name or column_name returns the
\* 'Invalid schema entry' error value; neither raises, neither yields scores.
C1_ValidationReturnsErrorValue ==
    Called =>
        /\ EmptySchema => outcome = ErrorValue("Invalid schema input")
        /\ (~EmptySchema /\ EntryLacksKeys) => outcome = ErrorValue("Invalid schema entry")

ValidationFailure ==
    \/ body # "with_schema"
    \/ schema.kind # "list"
    \/ EmptySchema
    \/ EntryLacksKeys

\* C2: the score_schema route answers every validation failure (no schema
\* key, schema not a list, empty list, entry without table_name/column_name)
\* with a 4xx status, and answers 200 only when a score was computed.
C2_ValidationFailureIs4xx ==
    pc = "responded" =>
        /\ ValidationFailure => status \in 400..499
        /\ status = 200 => response.kind = "scores"

\* C3: two fields whose table_name values differ are never compared for
\* collision: their pair is never recorded as penalized, whatever the names.
C3_CrossTableNeverPenalized ==
    Scored =>
        \A p \in FieldPairs : TableOf(p[1]) # TableOf(p[2]) => ~Recorded(p)

DistinctDescriptions(p) ==
    /\ OwnDesc(p[1]) # ""
    /\ OwnDesc(p[2]) # ""
    /\ OwnDesc(p[1]) # OwnDesc(p[2])

\* C4: two distinct fields of the same table whose own trimmed descriptions
\* are both non-empty and different are never penalized, whatever their names.
C4_DistinctDescriptionsNeverPenalized ==
    Scored =>
        \A p \in FieldPairs :
            (TableOf(p[1]) = TableOf(p[2]) /\ DistinctDescriptions(p)) => ~Recorded(p)

Penalizable(p) ==
    /\ TableOf(p[1]) = TableOf(p[2])
    /\ EmbeddingSim(NameOf(p[1]), NameOf(p[2])) >= EffectiveThreshold
    /\ ~DistinctDescriptions(p)

\* C5: every pair of distinct fields of one table whose name similarity
\* reaches the threshold and which is not exempt is recorded exactly once as a
\* penalized pair, with both names in Similar_Undifferentiated; and a name is
\* in Similar_Undifferentiated only if it occurs in a penalized pair.
C5_PenalizablePairsRecordedOnce ==
    Scored =>
        /\ \A p \in FieldPairs :
              Penalizable(p) =>
                  /\ TimesRecorded(p) = 1
                  /\ {NameOf(p[1]), NameOf(p[2])} \subseteq outcome.Similar_Undifferentiated
        /\ \A name \in outcome.Similar_Undifferentiated :
              \E k \in 1..Len(similar_pairs) : name \in {similar_pairs[k][1], similar_pairs[k][2]}

\* C6: every field whose name is judged non-meaningful and whose description
\* is non-empty after trimming is counted as adequately named, is listed in
\* NonMeaningful and is not listed in NonMeaningful_NoDescription.
C6_DescribedNonMeaningfulField ==
    Scored =>
        /\ fields_meaningful_or_described =
             Cardinality({i \in Fields : JudgedMeaningful(i) \/ OwnDesc(i) # ""})
        /\ \A i \in Fields :
              (~JudgedMeaningful(i) /\ OwnDesc(i) # "") =>
                  /\ NameOf(i) \in outcome.NonMeaningful
                  /\ NameOf(i) \notin outcome.NonMeaningful_NoDescription

SumOfEffectiveWeights ==
    weights["field_names"] + weights["field_descriptions"]
      + weights["field_name_similarity"] + weights["field_types"]
      + weights["keys_presence"]

SumOfReturnedScores ==
    RatAdd(RatAdd(RatAdd(RatAdd(outcome.field_names_score,
                                outcome.field_descriptions_score),
                         outcome.field_name_similarity_score),
                  outcome.field_types_score),
           outcome.keys_presence_score)

RawOf(metric) ==
    CASE metric = "field_names" -> outcome.field_names_score
      [] metric = "field_descriptions" -> outcome.field_descriptions_score
      [] metric = "field_name_similarity" -> outcome.field_name_similarity_score
      [] metric = "field_types" -> outcome.field_types_score
      [] metric = "keys_presence" -> outcome.keys_presence_score

PctOf(metric) ==
    CASE metric = "field_names" -> outcome.field_names_score_pct
      [] metric = "field_descriptions" -> outcome.field_descriptions_score_pct
      [] metric = "field_name_similarity" -> outcome.field_name_similarity_score_pct
      [] metric = "field_types" -> outcome.field_types_score_pct
      [] metric = "keys_presence" -> outcome.keys_presence_score_pct

Between(low, r, high) == RatLeq(Num(low), r) /\ RatLeq(r, Num(high))

\* C8: with non-negative weights, a valid schema is always scored (no
\* division by zero), each raw score lies in [0, weight of its metric], each
\* of the five percentages lies in [0, 100], and the percentage of a metric
\* of weight 0 is exactly 0.
C8_ScoresWithinBounds ==
    (Called /\ Validated(schema)) =>
        /\ Scored
        /\ \A m \in MetricNames :
              /\ Between(0, RawOf(m), weights[m])
              /\ Between(0, PctOf(m), 100)
              /\ weights[m] = 0 => PctOf(m) = Num(0)

C8_Witness ==
    /\ Scored
    /\ weights["keys_presence"] = 0
    /\ weights["field_names"] # 0
    /\ PctOf("keys_presence") = Num(0)
    /\ PctOf("field_names") \notin {Num(0), Num(100)}
    /\ \E i \in Fields : schema.items[i].primary_key

ClaimedDefault(metric) ==
    CASE metric = "field_names" -> 35
      [] metric = "field_descriptions" -> 25
      [] metric = "field_name_similarity" -> 20
      [] metric = "field_types" -> 10
      [] metric = "keys_presence" -> 10

\* the weights the claim expects: a recognized key of the override replaces
\* the default of its metric, everything else is ignored
ExpectedWeights ==
    [m \in MetricNames |->
        IF m \in DOMAIN weights_override THEN weights_override[m] ELSE ClaimedDefault(m)]

\* the scores of this schema under the expected weights
ExpectedScores ==
    LET raw == RawScores(schema.items, similar_pairs, fields_meaningful_or_described,
                         ExpectedWeights)
    IN  DetailedScores(raw, TotalScore(raw), ExpectedWeights, non_meaningful_fields,
                       non_meaningful_no_description,
                       SimilarityPenalizedFields(similar_pairs))

\* C9: a key of weights_override that is no metric name changes neither the
\* effective weights nor the result; a recognized key replaces the default of
\* its metric only, every other metric keeping its default (35, 25, 20, 10,
\* 10), also in an evaluation that follows one with an override.
C9_OverrideMergesByKey ==
    Called =>
        /\ weights = ExpectedWeights
        /\ Scored => outcome = ExpectedScores

C9_Witness ==
    /\ Scored
    /\ "bogus" \in DOMAIN weights_override
    /\ "field_types" \in DOMAIN weights_override
    /\ weights["field_types"] = 7
    /\ weights["field_names"] = 35
    /\ DOMAIN weights = MetricNames

\* C10: for a schema of n fields the Field Name Similarity raw score is
\* (1 - P / C(n,2)) * weight, P the number of penalized pairs and C(n,2) the
\* pair count of the whole schema; for n = 1 it is the full weight, and the
\* percentage is 100 when the weight is not 0.
C10_SimilarityScoreFormula ==
    Scored =>
        LET n == Len(schema.items)
            P == Len(similar_pairs)
            w == weights["field_name_similarity"]
        IN  /\ n >= 2 =>
                 outcome.field_name_similarity_score =
                   RatMul(RatSub(Num(1), Rat(P, (n * (n - 1)) \div 2)), Num(w))
            /\ n = 1 =>
                 /\ outcome.field_name_similarity_score = Num(w)
                 /\ w # 0 => outcome.field_name_similarity_score_pct = Num(100)

C10_Witness ==
    /\ Scored
    /\ Len(schema.items) = 3
    /\ Cardinality(TotalTables(schema.items)) = 2
    /\ Len(similar_pairs) = 1
    /\ weights["field_name_similarity"] # 0

====
